---------------------------- MODULE Spec2Model ----------------------------
(* A model of rye's `sync` (src/rye/src/sync.rs): the state machine that   *)
(* decides whether the project's virtualenv is reused, created or          *)
(* recreated, and which of lock regeneration and installation run.         *)
(*                                                                         *)
(* Every filesystem operation and every external tool call of `sync` is    *)
(* one step of the process running it, and each may succeed or fail as     *)
(* the operating system or the tool decides.                               *)
EXTENDS Naturals, Sequences, FiniteSets, TLC

(***************************************************************************)
(* Bounds.                                                                 *)
(***************************************************************************)
\* Number of processes that may run `sync` (only process 1 runs in Spec).
NumProcs == 2
\* Number of syncs started in one behaviour.
MaxSyncs == 2

Procs == 1..NumProcs

(***************************************************************************)
(* Data model.                                                             *)
(***************************************************************************)
\* sync.rs:22-32
SyncMode == {"PythonOnly", "LockOnly", "Regular", "Full"}

\* crate::utils::CommandOutput, as used at sync.rs:85,115,207-216
CommandOutput == {"Quiet", "Normal", "Verbose"}

\* sync.rs:36-47 (lock_options is forwarded untouched and is left out)
SyncOptions == [output : CommandOutput, dev : BOOLEAN, mode : SyncMode, force : BOOLEAN]

\* crate::sources::PythonVersion: the interpreter versions of the model.
V310 == [major |-> 3, minor |-> 10, patch |-> 11]
V311 == [major |-> 3, minor |-> 11, patch |-> 4]
PythonVersion == {V310, V311}
\* Placeholder of the `python` field of a directory that does not exist.
NoVersion == [major |-> 0, minor |-> 0, patch |-> 0]

\* The toolchains crate::bootstrap::fetch can provide.
KnownToolchains == PythonVersion

\* `py_ver.into()` at sync.rs:105: a PythonVersion as a PythonVersionRequest,
\* whose minor and patch are optional (<<>> is None, <<x>> is Some(x)).
IntoRequest(v) == [major |-> v.major, minor |-> <<v.minor>>, patch |-> <<v.patch>>]

\* Whether a toolchain satisfies a request: every given component is equal.
MatchesVersion(req, v) ==
    /\ req.major = v.major
    /\ (req.minor = <<>> \/ req.minor[1] = v.minor)
    /\ (req.patch = <<>> \/ req.patch[1] = v.patch)

\* The versions `fetch` may return for a request (none: the fetch fails).
FetchResults(req) == {v \in KnownToolchains : MatchesVersion(req, v)}

\* Mutant of SerializeMarker: the version is written without its kind.
SerializeMarkerNoKind(v) == <<"python", <<v.major, v.minor, v.patch>>>>

\* sync.rs:60-63,131: the marker file's text, serde_json::to_string_pretty of
\* VenvMarker { python }: one object with the key "python" and the version
\* written out as kind@major.minor.patch.
SerializeMarker(v) == <<"python", <<"cpython", v.major, v.minor, v.patch>>>>

\* An empty (truncated) marker file.
EmptyContents == <<>>

\* sync.rs:82-83: serde_json::from_slice::<VenvMarker>; <<FALSE, _>> is the
\* parse error, <<TRUE, v>> the marker's python.
WellFormedVersionText(t) ==
    /\ Len(t) = 4
    /\ t[1] = "cpython"
    /\ [major |-> t[2], minor |-> t[3], patch |-> t[4]] \in PythonVersion
\* Mutant of ParseMarker: unparseable content is defaulted instead of refused.
ParseMarkerLenient(contents) ==
    IF /\ Len(contents) = 2
       /\ contents[1] = "python"
       /\ WellFormedVersionText(contents[2])
    THEN <<TRUE, [major |-> contents[2][2], minor |-> contents[2][3],
                  patch |-> contents[2][4]]>>
    ELSE <<TRUE, NoVersion>>

ParseMarker(contents) ==
    IF /\ Len(contents) = 2
       /\ contents[1] = "python"
       /\ WellFormedVersionText(contents[2])
    THEN <<TRUE, [major |-> contents[2][2], minor |-> contents[2][3],
                  patch |-> contents[2][4]]>>
    ELSE <<FALSE, NoVersion>>

(***************************************************************************)
(* State.                                                                  *)
(***************************************************************************)
VARIABLES
    venv,          \* the environment directory: [is_dir, marker_is_file, marker, python]
    lockfile,      \* requirements.lock is a file
    dev_lockfile,  \* requirements-dev.lock is a file
    workspace,     \* pyproject.workspace() is Some
    tmpdirs,       \* processes whose TempDir exists
    links,         \* processes whose TempDir holds the pip link
    pc,            \* per process: the statement of sync it is at ("idle": not in sync)
    cmd,           \* per process: the SyncOptions of its sync
    py_ver,        \* per process: the local py_ver
    recreate,      \* per process: the local recreate
    log,           \* per process: what its current (or last) sync did, in order
    result,        \* per process: "running", "Ok" or the error of its last sync
    start,         \* per process: the directory and requested version when its sync started
    prev,          \* how the sync before this one ended: a Regular sync that returned Ok (and its
                   \* version), or one that stopped between create_virtualenv and the marker file
    nsyncs         \* number of syncs started

vars == <<venv, lockfile, dev_lockfile, workspace, tmpdirs, links, pc, cmd, py_ver,
          recreate, log, result, start, prev, nsyncs>>

fsvars == <<venv, lockfile, dev_lockfile>>

AbsentVenv == [is_dir |-> FALSE, marker_is_file |-> FALSE,
               marker |-> EmptyContents, python |-> NoVersion]

\* A directory made by someone else: no marker file.
ForeignVenv(v) == [is_dir |-> TRUE, marker_is_file |-> FALSE,
                   marker |-> EmptyContents, python |-> v]

\* A directory as a completed sync leaves it (sync.rs:127-133).
ManagedVenv(v) == [is_dir |-> TRUE, marker_is_file |-> TRUE,
                   marker |-> SerializeMarker(v), python |-> v]

NoOptions == [output |-> "Normal", dev |-> FALSE, mode |-> "PythonOnly", force |-> FALSE]
NoPrev == [regular_ok |-> FALSE, requested |-> NoVersion, half_built |-> FALSE]

Init ==
    /\ venv \in {AbsentVenv} \cup {ForeignVenv(v) : v \in PythonVersion}
                             \cup {ManagedVenv(v) : v \in PythonVersion}
    /\ lockfile = FALSE
    /\ dev_lockfile = FALSE
    /\ workspace \in BOOLEAN
    /\ tmpdirs = {}
    /\ links = {}
    /\ pc = [p \in Procs |-> "idle"]
    /\ cmd = [p \in Procs |-> NoOptions]
    /\ py_ver = [p \in Procs |-> NoVersion]
    /\ recreate = [p \in Procs |-> FALSE]
    /\ log = [p \in Procs |-> <<>>]
    /\ result = [p \in Procs |-> "none"]
    /\ start = [p \in Procs |-> [venv |-> AbsentVenv, requested |-> NoVersion]]
    /\ prev = NoPrev
    /\ nsyncs = 0

(***************************************************************************)
(* Helpers of the actions.                                                 *)
(***************************************************************************)
Logged(p, ev) == log' = [log EXCEPT ![p] = Append(@, ev)]

Goto(p, label) == pc' = [pc EXCEPT ![p] = label]

\* Mutant of Return: the TempDir outlives the call (as with TempDir::into_path).
ReturnLeaksTempDir(p, res) ==
    /\ pc' = [pc EXCEPT ![p] = "idle"]
    /\ result' = [result EXCEPT ![p] = res]
    /\ UNCHANGED <<tmpdirs, links>>

\* sync returns: its TempDir (if any) is dropped with its link.
Return(p, res) ==
    /\ pc' = [pc EXCEPT ![p] = "idle"]
    /\ result' = [result EXCEPT ![p] = res]
    /\ tmpdirs' = tmpdirs \ {p}
    /\ links' = links \ {p}

\* An early return with an error (`?` or bail!).
Fail(p, err) ==
    /\ Return(p, err)
    /\ UNCHANGED <<fsvars, workspace, cmd, py_ver, recreate, log, start, prev, nsyncs>>

\* Mutant of InitialRecreate: mode Full no longer asks for recreation.
InitialRecreateNever(c) == FALSE

\* sync.rs:78: let mut recreate = cmd.mode == SyncMode::Full;
InitialRecreate(c) == c.mode = "Full"

\* Mutant of ForcesRecreation: the force check is dropped.
ForcesRecreationAlways(c) == TRUE

\* sync.rs:93: a directory without marker is recreated only with cmd.force.
ForcesRecreation(c) == c.force

\* sync.rs:84: marker.python != py_ver
MarkerDiffers(marker_python, v) == marker_python # v

\* Mutant of AfterEnvironment: the block starts at the installation.
AfterEnvironmentSkipsLock(p, rec) ==
    IF rec \/ cmd[p].mode # "PythonOnly" THEN "pip_sync" ELSE "report"

\* sync.rs:140: the statement after environment resolution.
AfterEnvironment(p, rec) ==
    IF rec \/ cmd[p].mode # "PythonOnly" THEN "tempdir" ELSE "report"

(***************************************************************************)
(* The steps of sync.                                                      *)
(***************************************************************************)
\* The last sync of p ran create_virtualenv with success and then stopped,
\* interrupted or with the error of fs::write, with no marker file made.
StoppedBeforeMarker(p) ==
    /\ result[p] \in {"interrupted", "failed writing venv marker file"}
    /\ \E i \in 1..Len(log[p]) : log[p][i] = <<"create_virtualenv", "ok">>
    /\ ~venv.marker_is_file

\* sync(cmd) is called with options c: sync.rs:66. The requested version v
\* is what load_python_version() (or latest_cpython) gives at sync.rs:71.
Begin(p, c, v) ==
    /\ pc[p] = "idle"
    /\ nsyncs < MaxSyncs
    /\ cmd' = [cmd EXCEPT ![p] = c]
    /\ py_ver' = [py_ver EXCEPT ![p] = v]
    /\ start' = [start EXCEPT ![p] = [venv |-> venv, requested |-> v]]
    /\ prev' = IF result[p] = "Ok" /\ cmd[p].mode = "Regular"
               THEN [regular_ok |-> TRUE, requested |-> start[p].requested,
                     half_built |-> FALSE]
               ELSE IF StoppedBeforeMarker(p)
               THEN [NoPrev EXCEPT !.half_built = TRUE]
               ELSE NoPrev
    /\ recreate' = [recreate EXCEPT ![p] = FALSE]
    /\ log' = [log EXCEPT ![p] = <<>>]
    /\ result' = [result EXCEPT ![p] = "running"]
    /\ nsyncs' = nsyncs + 1
    /\ Goto(p, "discover")
    /\ UNCHANGED <<fsvars, workspace, tmpdirs, links>>

\* A sync with any options and any requested version.
StartSync(p) == \E c \in SyncOptions, v \in PythonVersion : Begin(p, c, v)

\* The options of the syncs that run concurrently: the two modes that run
\* every phase, without force; verbosity and dev play no part in what
\* happens to the directory.
ConcurrentOptions ==
    [output : {"Quiet"}, dev : {FALSE}, mode : {"Regular", "Full"}, force : {FALSE}]

\* The one sync of process p, started while the other may be in its own.
StartConcurrent(p) ==
    /\ result[p] = "none"
    /\ \E c \in ConcurrentOptions, v \in PythonVersion : Begin(p, c, v)

\* sync.rs:67: PyProject::discover()?
Discover(p) ==
    /\ pc[p] = "discover"
    /\ \/ /\ Goto(p, "bootstrap")
          /\ UNCHANGED <<fsvars, workspace, tmpdirs, links, cmd, py_ver, recreate,
                         log, result, start, prev, nsyncs>>
       \/ Fail(p, "discover failed")

\* sync.rs:76-78: ensure_self_venv(output)?, then recreate = (mode == Full).
EnsureSelfVenv(p) ==
    /\ pc[p] = "bootstrap"
    /\ \/ /\ recreate' = [recreate EXCEPT ![p] = InitialRecreate(cmd[p])]
          /\ Goto(p, "classify")
          /\ UNCHANGED <<fsvars, workspace, tmpdirs, links, cmd, py_ver,
                         log, result, start, prev, nsyncs>>
       \/ Fail(p, "could not sync because bootstrap failed")

\* sync.rs:79-80,93-101: venv.is_dir() and marker_file.is_file().
Classify(p) ==
    /\ pc[p] = "classify"
    /\ IF ~venv.is_dir
       THEN /\ Goto(p, "fetch")
            /\ UNCHANGED <<recreate, log, result, tmpdirs, links>>
       ELSE IF venv.marker_is_file
       THEN /\ Goto(p, "read_marker")
            /\ UNCHANGED <<recreate, log, result, tmpdirs, links>>
       ELSE IF ForcesRecreation(cmd[p])
       THEN /\ recreate' = [recreate EXCEPT ![p] = TRUE]
            /\ IF cmd[p].output # "Quiet"
               THEN Logged(p, <<"eprintln", "Forcing re-creation of non rye managed virtualenv">>)
               ELSE UNCHANGED log
            /\ Goto(p, "fetch")
            /\ UNCHANGED <<result, tmpdirs, links>>
       ELSE /\ Return(p, "virtualenv is not managed by rye")
            /\ UNCHANGED <<recreate, log>>
    /\ UNCHANGED <<fsvars, workspace, cmd, py_ver, start, prev, nsyncs>>

\* sync.rs:81-92: read and parse the marker, compare it with py_ver.
ReadMarker(p) ==
    /\ pc[p] = "read_marker"
    /\ \/ /\ venv.is_dir /\ venv.marker_is_file
          /\ LET parsed == ParseMarker(venv.marker) IN
             IF ~parsed[1]
             THEN /\ Return(p, "malformed venv marker file")
                  /\ UNCHANGED <<recreate, log>>
             ELSE IF MarkerDiffers(parsed[2], py_ver[p])
             THEN /\ recreate' = [recreate EXCEPT ![p] = TRUE]
                  /\ IF cmd[p].output # "Quiet"
                     THEN Logged(p, <<"eprintln", "Python version mismatch, recreating.">>)
                     ELSE UNCHANGED log
                  /\ Goto(p, "fetch")
                  /\ UNCHANGED <<result, tmpdirs, links>>
             ELSE /\ Goto(p, "fetch")
                  /\ UNCHANGED <<recreate, log, result, tmpdirs, links>>
          /\ UNCHANGED <<fsvars, workspace, cmd, py_ver, start, prev, nsyncs>>
       \/ Fail(p, "could not read venv marker file")

\* sync.rs:104-105: fetch(&py_ver.into(), output)?; py_ver is rebound to
\* Mutant of Fetch: the directory is removed before the toolchain is fetched.
FetchRemovesFirst(p) ==
    /\ pc[p] = "fetch"
    /\ venv' = IF recreate[p] THEN AbsentVenv ELSE venv
    /\ \/ /\ \E v \in FetchResults(IntoRequest(py_ver[p])) :
                py_ver' = [py_ver EXCEPT ![p] = v]
          /\ Goto(p, "remove")
          /\ UNCHANGED <<result, tmpdirs, links>>
       \/ /\ Return(p, "failed fetching toolchain ahead of sync")
          /\ UNCHANGED py_ver
    /\ UNCHANGED <<lockfile, dev_lockfile, workspace, cmd, recreate, log, start,
                   prev, nsyncs>>

\* the version fetch returns.
Fetch(p) ==
    /\ pc[p] = "fetch"
    /\ \/ /\ \E v \in FetchResults(IntoRequest(py_ver[p])) :
                py_ver' = [py_ver EXCEPT ![p] = v]
          /\ Goto(p, "remove")
          /\ UNCHANGED <<fsvars, workspace, tmpdirs, links, cmd, recreate,
                         log, result, start, prev, nsyncs>>
       \/ Fail(p, "failed fetching toolchain ahead of sync")

\* What a failed fs::remove_dir_all may leave of directory d: all of it, or
\* the directory with the entries removed before the failure missing.
PartlyRemoved(d) ==
    {d, [d EXCEPT !.marker_is_file = FALSE, !.marker = EmptyContents]}

\* sync.rs:108-110: if recreate { fs::remove_dir_all(&venv).ok(); }
RemoveVenv(p) ==
    /\ pc[p] = "remove"
    /\ IF ~recreate[p]
       THEN UNCHANGED <<venv, log>>
       ELSE IF ~venv.is_dir
       THEN /\ UNCHANGED venv
            /\ Logged(p, <<"remove_dir_all", "not found">>)
       ELSE \/ /\ venv' = AbsentVenv
               /\ Logged(p, <<"remove_dir_all", "removed">>)
            \/ /\ venv' \in PartlyRemoved(venv)
               /\ Logged(p, <<"remove_dir_all", "failed">>)
    /\ Goto(p, "check_venv")
    /\ UNCHANGED <<lockfile, dev_lockfile, workspace, tmpdirs, links, cmd, py_ver,
                   recreate, result, start, prev, nsyncs>>

\* sync.rs:112-126: venv.is_dir() decides between reuse and creation.
CheckVenv(p) ==
    /\ pc[p] = "check_venv"
    /\ IF venv.is_dir
       THEN /\ IF cmd[p].mode \notin {"PythonOnly", "LockOnly"} /\ cmd[p].output # "Quiet"
               THEN Logged(p, <<"eprintln", "Reusing already existing virtualenv">>)
               ELSE UNCHANGED log
            /\ Goto(p, AfterEnvironment(p, recreate[p]))
       ELSE /\ IF cmd[p].output # "Quiet"
               THEN Logged(p, <<"eprintln", "Initializing new virtualenv">>)
               ELSE UNCHANGED log
            /\ Goto(p, "create")
    /\ UNCHANGED <<fsvars, workspace, tmpdirs, links, cmd, py_ver, recreate,
                   result, start, prev, nsyncs>>

\* The directory after the virtualenv tool populated it for version v.
Populated(d, v) == [d EXCEPT !.is_dir = TRUE, !.python = v]

\* Mutant of CreateVirtualenv: the result of the virtualenv tool is not looked
\* at, the sync goes on to the marker whatever it was.
CreateVirtualenvUnchecked(p) ==
    /\ pc[p] = "create"
    /\ \/ /\ venv' = Populated(venv, py_ver[p])
          /\ Logged(p, <<"create_virtualenv", "ok">>)
       \/ /\ venv' \in {venv, Populated(venv, py_ver[p])}
          /\ Logged(p, <<"create_virtualenv", "failed">>)
    /\ Goto(p, "write_marker")
    /\ UNCHANGED <<lockfile, dev_lockfile, workspace, cmd, py_ver, recreate,
                   start, prev, nsyncs, result, tmpdirs, links>>

\* sync.rs:127-128,231-257: create_virtualenv(output, &self_venv, &py_ver, &venv)?
CreateVirtualenv(p) ==
    /\ pc[p] = "create"
    /\ \/ /\ venv' = Populated(venv, py_ver[p])
          /\ Logged(p, <<"create_virtualenv", "ok">>)
          /\ Goto(p, "write_marker")
          /\ UNCHANGED <<result, tmpdirs, links>>
       \/ /\ venv' \in {venv, Populated(venv, py_ver[p])}
          /\ Logged(p, <<"create_virtualenv", "failed">>)
          /\ Return(p, "failed creating virtualenv ahead of sync")
    /\ UNCHANGED <<lockfile, dev_lockfile, workspace, cmd, py_ver, recreate,
                   start, prev, nsyncs>>

\* Mutant of WriteMarker: the marker is never written.
WriteMarkerSkipped(p) ==
    /\ pc[p] = "write_marker"
    /\ Goto(p, AfterEnvironment(p, recreate[p]))
    /\ UNCHANGED <<fsvars, workspace, tmpdirs, links, cmd, py_ver, recreate,
                   log, result, start, prev, nsyncs>>

\* sync.rs:129-133: fs::write(&marker_file, to_string_pretty(&VenvMarker { python: py_ver }))?
WriteMarker(p) ==
    /\ pc[p] = "write_marker"
    /\ \/ /\ venv.is_dir
          /\ venv' = [venv EXCEPT !.marker_is_file = TRUE,
                                  !.marker = SerializeMarker(py_ver[p])]
          /\ Logged(p, <<"write_marker", "ok">>)
          /\ Goto(p, AfterEnvironment(p, recreate[p]))
          /\ UNCHANGED <<result, tmpdirs, links>>
       \/ /\ venv' \in {venv} \cup
                 (IF venv.is_dir
                  THEN {[venv EXCEPT !.marker_is_file = TRUE, !.marker = EmptyContents]}
                  ELSE {})
          /\ Logged(p, <<"write_marker", "failed">>)
          /\ Return(p, "failed writing venv marker file")
    /\ UNCHANGED <<lockfile, dev_lockfile, workspace, cmd, py_ver, recreate,
                   start, prev, nsyncs>>

\* The process is killed from outside between sync.rs:128 and sync.rs:129
\* (sync has no cancellation of its own): nothing more of the sync runs.
\* Interruption at the other statements is not part of the model.
Interrupt(p) ==
    /\ pc[p] = "write_marker"
    /\ pc' = [pc EXCEPT ![p] = "idle"]
    /\ result' = [result EXCEPT ![p] = "interrupted"]
    /\ UNCHANGED <<fsvars, workspace, tmpdirs, links, cmd, py_ver, recreate,
                   log, start, prev, nsyncs>>

\* sync.rs:141: TempDir::new()?
TempDirNew(p) ==
    /\ pc[p] = "tempdir"
    /\ \/ /\ tmpdirs' = tmpdirs \cup {p}
          /\ Goto(p, "symlink")
          /\ UNCHANGED <<fsvars, workspace, links, cmd, py_ver, recreate,
                         log, result, start, prev, nsyncs>>
       \/ Fail(p, "TempDir::new failed")

\* sync.rs:142-143: symlink(get_pip_module(&self_venv), dir.path().join("pip"))?
Symlink(p) ==
    /\ pc[p] = "symlink"
    /\ \/ /\ links' = links \cup {p}
          /\ Goto(p, "lock_production")
          /\ UNCHANGED <<fsvars, workspace, tmpdirs, cmd, py_ver, recreate,
                         log, result, start, prev, nsyncs>>
       \/ Fail(p, "failed linking pip module into for pip-sync")

\* sync.rs:145,147,165: the entry point of the Lock Driver.
LockEntryPoint == IF workspace THEN "update_workspace_lockfile"
                  ELSE "update_single_project_lockfile"

\* sync.rs:147-154,165-172: the production lock call.
LockProduction(p) ==
    /\ pc[p] = "lock_production"
    /\ Logged(p, <<LockEntryPoint, "Production", "requirements.lock">>)
    /\ \/ /\ lockfile' = TRUE
          /\ Goto(p, "lock_dev")
          /\ UNCHANGED <<result, tmpdirs, links>>
       \/ /\ UNCHANGED lockfile
          /\ Return(p, "could not write production lockfile")
    /\ UNCHANGED <<venv, dev_lockfile, workspace, cmd, py_ver, recreate,
                   start, prev, nsyncs>>

\* Mutant of AfterLock: the LockOnly check is dropped.
AfterLockAlwaysInstall(p) == "pip_sync"

\* sync.rs:184: after the lock calls, install unless mode is LockOnly.
AfterLock(p) == IF cmd[p].mode # "LockOnly" THEN "pip_sync" ELSE "report"

\* sync.rs:155-162,173-180: the dev lock call; sync.rs:184,222: with
\* LockOnly the block ends here and the TempDir is dropped.
LockDev(p) ==
    /\ pc[p] = "lock_dev"
    /\ Logged(p, <<LockEntryPoint, "Dev", "requirements-dev.lock">>)
    /\ \/ /\ dev_lockfile' = TRUE
          /\ Goto(p, AfterLock(p))
          /\ IF AfterLock(p) = "report"
             THEN tmpdirs' = tmpdirs \ {p} /\ links' = links \ {p}
             ELSE UNCHANGED <<tmpdirs, links>>
          /\ UNCHANGED result
       \/ /\ UNCHANGED dev_lockfile
          /\ Return(p, "could not write dev lockfile")
    /\ UNCHANGED <<venv, lockfile, workspace, cmd, py_ver, recreate,
                   start, prev, nsyncs>>

\* The dev lock file is deleted by something other than sync after the dev lock
\* call wrote it (sync.rs:174-181) and before dev_lockfile.is_file() looks for
\* it (sync.rs:201); the file test exists for this case.
DevLockfileRemoved(p) ==
    /\ pc[p] = "pip_sync"
    /\ dev_lockfile
    /\ dev_lockfile' = FALSE
    /\ UNCHANGED <<venv, lockfile, workspace, tmpdirs, links, pc, cmd, py_ver,
                   recreate, log, result, start, prev, nsyncs>>

\* Mutant of InstallSource: the production lock file whatever the options.
InstallSourceAlwaysProduction(p) == "requirements.lock"

\* sync.rs:201-205: the lock artifact handed to pip-sync.
InstallSource(p) == IF cmd[p].dev /\ dev_lockfile THEN "requirements-dev.lock"
                    ELSE "requirements.lock"

\* sync.rs:185-221: run pip-sync; sync.rs:222: the TempDir is dropped.
PipSync(p) ==
    /\ pc[p] = "pip_sync"
    /\ Logged(p, <<"pip-sync", InstallSource(p)>>)
    /\ \/ /\ Goto(p, "report")
          /\ tmpdirs' = tmpdirs \ {p}
          /\ links' = links \ {p}
          /\ UNCHANGED result
       \/ Return(p, "Installation of dependencies failed")
    /\ UNCHANGED <<fsvars, workspace, cmd, py_ver, recreate, start, prev, nsyncs>>

\* Mutant of EmitsDone: the mode is not looked at.
EmitsDoneIgnoresMode(c) == c.output # "Quiet"

\* sync.rs:224: output != CommandOutput::Quiet && cmd.mode != SyncMode::PythonOnly
EmitsDone(c) == c.output # "Quiet" /\ c.mode # "PythonOnly"

\* sync.rs:224-228: the completion message, then Ok(()).
Report(p) ==
    /\ pc[p] = "report"
    /\ IF EmitsDone(cmd[p])
       THEN Logged(p, <<"eprintln", "Done!">>)
       ELSE UNCHANGED log
    /\ Return(p, "Ok")
    /\ UNCHANGED <<fsvars, workspace, cmd, py_ver, recreate, start, prev, nsyncs>>

(***************************************************************************)
(* Specification: syncs run one after the other, by process 1.             *)
(***************************************************************************)
Sequential == {1}

Next ==
    \E p \in Sequential :
       \/ StartSync(p)
       \/ Discover(p)
       \/ EnsureSelfVenv(p)
       \/ Classify(p)
       \/ ReadMarker(p)
       \/ Fetch(p)
       \/ RemoveVenv(p)
       \/ CheckVenv(p)
       \/ CreateVirtualenv(p)
       \/ WriteMarker(p)
       \/ Interrupt(p)
       \/ TempDirNew(p)
       \/ Symlink(p)
       \/ LockProduction(p)
       \/ LockDev(p)
       \/ DevLockfileRemoved(p)
       \/ PipSync(p)
       \/ Report(p)

Spec == Init /\ [][Next]_vars

(***************************************************************************)
(* Specification: two processes run one sync each against the same         *)
(* directory, their steps interleaved. sync takes no lock on the directory.*)
(***************************************************************************)
Concurrent == {1, 2}

NextConcurrent ==
    \E p \in Concurrent :
       \/ StartConcurrent(p)
       \/ Discover(p)
       \/ EnsureSelfVenv(p)
       \/ Classify(p)
       \/ ReadMarker(p)
       \/ Fetch(p)
       \/ RemoveVenv(p)
       \/ CheckVenv(p)
       \/ CreateVirtualenv(p)
       \/ WriteMarker(p)
       \/ TempDirNew(p)
       \/ Symlink(p)
       \/ LockProduction(p)
       \/ LockDev(p)
       \/ PipSync(p)
       \/ Report(p)

SpecConcurrent == Init /\ [][NextConcurrent]_vars

(***************************************************************************)
(* Vocabulary of the properties.                                           *)
(***************************************************************************)
Has(p, ev) == \E i \in 1..Len(log[p]) : log[p][i] = ev

LockEntryPoints == {"update_workspace_lockfile", "update_single_project_lockfile"}
IsLockCall(ev) == ev[1] \in LockEntryPoints
IsInstallCall(ev) == ev[1] = "pip-sync"
IsMessage(ev) == ev[1] = "eprintln"

\* The calls of the Lock Driver and of the Installer Invoker, in order.
LockCalls(p) == SelectSeq(log[p], IsLockCall)
InstallCalls(p) == SelectSeq(log[p], IsInstallCall)

\* What the sync did to the environment directory (messages left out).
IsEnvEffect(ev) == ev[1] \in {"remove_dir_all", "create_virtualenv", "write_marker"}
EnvEffects(p) == SelectSeq(log[p], IsEnvEffect)

\* Both lock calls of a sync, as sync.rs:145-181 makes them.
BothLockCalls ==
    <<<<LockEntryPoint, "Production", "requirements.lock">>,
      <<LockEntryPoint, "Dev", "requirements-dev.lock">>>>

IsPrefix(s, t) == Len(s) <= Len(t) /\ \A i \in 1..Len(s) : s[i] = t[i]

\* The classification of spec section 4.1, of directory d against target v.
StateOf(d, v) ==
    IF ~d.is_dir THEN "Absent"
    ELSE IF ~d.marker_is_file THEN "Unmanaged"
    ELSE IF ~ParseMarker(d.marker)[1] THEN "Malformed"
    ELSE IF ParseMarker(d.marker)[2] = v THEN "ManagedValid"
    ELSE "ManagedDrifted"

StartState(p) == StateOf(start[p].venv, start[p].requested)

\* Process p is in a sync, or its last sync has returned.
Synced(p) == result[p] # "none"
Returned(p) == pc[p] = "idle" /\ result[p] # "none"
ReturnedOk(p) == pc[p] = "idle" /\ result[p] = "Ok"

\* Statements of sync before the environment is resolved, and after.
BeforeResolution == {"discover", "bootstrap", "classify", "read_marker"}
ResolvedPcs == {"tempdir", "symlink", "lock_production", "lock_dev", "pip_sync", "report"}
ResolvedErrors == {"TempDir::new failed", "failed linking pip module into for pip-sync",
                   "could not write production lockfile", "could not write dev lockfile",
                   "Installation of dependencies failed"}
\* The sync of p passed environment resolution (reached sync.rs:140).
PassedResolution(p) ==
    \/ pc[p] \in ResolvedPcs
    \/ pc[p] = "idle" /\ result[p] \in ResolvedErrors \cup {"Ok"}

(***************************************************************************)
(* C1. A sync started on a present directory without marker file and with  *)
(* force=false returns an error and leaves the directory as it was: it     *)
(* never gets past the classification, removes nothing, creates nothing,   *)
(* writes no marker, and calls neither Lock Driver nor Installer; in every *)
(* mode and with every verbosity.                                          *)
(***************************************************************************)
C1_ForeignRejected ==
    \A p \in Procs :
       (Synced(p) /\ StartState(p) = "Unmanaged" /\ ~cmd[p].force) =>
          /\ venv = start[p].venv
          /\ log[p] = <<>>
          /\ result[p] # "Ok"
          /\ pc[p] \in {"discover", "bootstrap", "classify", "idle"}
          /\ p \notin tmpdirs

\* The rejection has happened, in mode Full.
C1_Witness ==
    \E p \in Procs :
       /\ Returned(p) /\ StartState(p) = "Unmanaged" /\ ~cmd[p].force
       /\ cmd[p].mode = "Full"
       /\ result[p] = "virtualenv is not managed by rye"

(***************************************************************************)
(* C2. A sync with mode=PythonOnly never calls the Lock Driver and never   *)
(* calls the Installer Invoker, whatever the starting directory and force. *)
(* Stated on the syncs in which no removal of the directory fails, so that *)
(* a violation shows the gate of sync.rs:140 and nothing else.             *)
(***************************************************************************)
C2_PythonOnlyNeverLocksOrInstalls ==
    \A p \in Procs :
       (cmd[p].mode = "PythonOnly" /\ ~Has(p, <<"remove_dir_all", "failed">>)) =>
          LockCalls(p) = <<>> /\ InstallCalls(p) = <<>>

(***************************************************************************)
(* C3 as stated. Every LockOnly sync that passed environment resolution    *)
(* and has returned has called the Lock Driver exactly twice (Production   *)
(* on requirements.lock, then Dev on requirements-dev.lock) and never the  *)
(* Installer.                                                              *)
(***************************************************************************)
C3_Original ==
    \A p \in Procs :
       (cmd[p].mode = "LockOnly" /\ Returned(p) /\ PassedResolution(p)) =>
          /\ LockCalls(p) = BothLockCalls
          /\ InstallCalls(p) = <<>>

(***************************************************************************)
(* C3 amended. A LockOnly sync never calls the Installer; its Lock Driver  *)
(* calls are, at every moment, a prefix of (Production on                  *)
(* requirements.lock, Dev on requirements-dev.lock) through the entry      *)
(* point the workspace decides; and when it returns Ok both calls were     *)
(* made, exactly once each.                                                *)
(***************************************************************************)
C3_LockOnlyLocksTwice ==
    \A p \in Procs :
       cmd[p].mode = "LockOnly" =>
          /\ InstallCalls(p) = <<>>
          /\ pc[p] # "pip_sync"
          /\ IsPrefix(LockCalls(p), BothLockCalls)
          /\ ReturnedOk(p) => LockCalls(p) = BothLockCalls

\* A LockOnly sync in a workspace returned Ok after both calls.
C3_Witness ==
    \E p \in Procs :
       /\ cmd[p].mode = "LockOnly" /\ ReturnedOk(p) /\ workspace
       /\ LockCalls(p) = <<<<"update_workspace_lockfile", "Production", "requirements.lock">>,
                           <<"update_workspace_lockfile", "Dev", "requirements-dev.lock">>>>

(***************************************************************************)
(* C4. The environment action of a sync is the function of (classified     *)
(* state, force, mode) of the decision table.                              *)
(***************************************************************************)
\* The decision table of spec section 4.1.
Decision(state, force, mode) ==
    CASE state = "Absent" -> "create"
      [] state = "ManagedValid" -> IF mode = "Full" THEN "recreate" ELSE "reuse"
      [] state = "ManagedDrifted" -> "recreate"
      [] state = "Unmanaged" -> IF force THEN "recreate" ELSE "fail"
      [] OTHER -> "none"

Decided(p) == Decision(StartState(p), cmd[p].force, cmd[p].mode)

\* The sync of p has executed sync.rs:112 (reuse or create was chosen).
CreationErrors == {"failed creating virtualenv ahead of sync",
                   "failed writing venv marker file"}
PassedCheckVenv(p) ==
    \/ pc[p] \in {"create", "write_marker"}
    \/ PassedResolution(p)
    \/ pc[p] = "idle" /\ result[p] \in CreationErrors

\* The action the sync of p took on the directory, read off what it did.
ActionTaken(p) ==
    IF pc[p] = "idle" /\ result[p] = "virtualenv is not managed by rye" THEN "fail"
    ELSE IF Has(p, <<"remove_dir_all", "removed">>) \/ Has(p, <<"remove_dir_all", "failed">>)
    THEN "recreate"
    ELSE IF \/ pc[p] \in {"create", "write_marker"}
            \/ Has(p, <<"create_virtualenv", "ok">>)
            \/ Has(p, <<"create_virtualenv", "failed">>)
    THEN "create"
    ELSE "reuse"

C5_AbsentRegular ==
    \A p \in Procs :
       (ReturnedOk(p) /\ StartState(p) = "Absent" /\ cmd[p].mode = "Regular") =>
          /\ venv.is_dir
          /\ venv.marker_is_file
          /\ ParseMarker(venv.marker) = <<TRUE, start[p].requested>>
          /\ Len(InstallCalls(p)) = 1

C5_Witness ==
    \E p \in Procs :
       /\ ReturnedOk(p) /\ StartState(p) = "Absent" /\ cmd[p].mode = "Regular"
       /\ start[p].requested = V311
       /\ venv = ManagedVenv(V311)
       /\ Len(InstallCalls(p)) = 1

(***************************************************************************)
(* C6. When a Regular sync that returned Ok is followed by a Regular sync  *)
(* with the same requested version, the second finds the directory         *)
(* ManagedValid and removes nothing, creates nothing and writes no marker. *)
(***************************************************************************)
C6_RegularIdempotent ==
    \A p \in Procs :
       (Synced(p) /\ prev.regular_ok /\ cmd[p].mode = "Regular"
          /\ start[p].requested = prev.requested) =>
          /\ StartState(p) = "ManagedValid"
          /\ EnvEffects(p) = <<>>

(***************************************************************************)
(* C7. A sync started on a directory whose marker records another version  *)
(* than the target, and that returns Ok, has removed the directory and     *)
(* recreated it, and the marker then records the target version.           *)
(***************************************************************************)
C7_DriftRecreates ==
    \A p \in Procs :
       (ReturnedOk(p) /\ StartState(p) = "ManagedDrifted") =>
          /\ Has(p, <<"remove_dir_all", "removed">>)
          /\ Has(p, <<"create_virtualenv", "ok">>)
          /\ venv.marker_is_file
          /\ ParseMarker(venv.marker) = <<TRUE, start[p].requested>>

(***************************************************************************)
(* C8. In a sync that decided to recreate an existing directory, the lock  *)
(* calls and the installation run only after the old directory was         *)
(* removed, the Environment Creator ran and a fresh marker was written.    *)
(* Stated for the modes in which lock regeneration is due.                 *)
(***************************************************************************)
C8_RecreationAllOrNothing ==
    \A p \in Procs :
       (recreate[p] /\ start[p].venv.is_dir /\ cmd[p].mode # "PythonOnly"
          /\ pc[p] \in {"lock_production", "lock_dev", "pip_sync"}) =>
          EnvEffects(p) = <<<<"remove_dir_all", "removed">>, <<"create_virtualenv", "ok">>,
                            <<"write_marker", "ok">>>>

(***************************************************************************)
(* C9. When the Installer is about to be called, the directory holds a     *)
(* marker, and the version it records is the version the directory was     *)
(* created with. Stated for the modes that have an install phase.          *)
(***************************************************************************)
C9_MarkerMatchesAtInstall ==
    \A p \in Procs :
       (pc[p] = "pip_sync" /\ cmd[p].mode \in {"Regular", "Full"}) =>
          /\ venv.marker_is_file
          /\ ParseMarker(venv.marker) = <<TRUE, venv.python>>

\* Content that is the serialization of no marker.
Unparseable(contents) == \A v \in PythonVersion : contents # SerializeMarker(v)

StartMalformed(p) ==
    /\ start[p].venv.is_dir
    /\ start[p].venv.marker_is_file
    /\ Unparseable(start[p].venv.marker)

(***************************************************************************)
(* C10. A sync started on a directory whose marker file holds content that *)
(* is no marker returns an error in every mode and with every force: it    *)
(* is not classified (no warning, no recreation asked for by the           *)
(* classification), the directory stays as it was, and nothing is          *)
(* created, locked or installed.                                           *)
(***************************************************************************)
C10_MalformedIsHardFailure ==
    \A p \in Procs :
       (Synced(p) /\ StartMalformed(p)) =>
          /\ venv = start[p].venv
          /\ log[p] = <<>>
          /\ result[p] # "Ok"
          /\ pc[p] \in BeforeResolution \cup {"idle"}
          /\ recreate[p] => cmd[p].mode = "Full"
          /\ Returned(p) => result[p] \in {"discover failed",
                                           "could not sync because bootstrap failed",
                                           "could not read venv marker file",
                                           "malformed venv marker file"}

\* The refusal has happened with force=true and mode Full.
C10_Witness ==
    \E p \in Procs :
       /\ Returned(p) /\ StartMalformed(p)
       /\ cmd[p].force /\ cmd[p].mode = "Full"
       /\ result[p] = "malformed venv marker file"

(***************************************************************************)
(* C11. The phases of a sync run in the order environment resolution, lock *)
(* regeneration, installation, completion message; a failing external tool *)
(* ends the sync with an error before every later phase, and no call is    *)
(* made twice.                                                             *)
(***************************************************************************)
\* The phase an entry of the log belongs to (0: a progress message).
PhaseOf(ev) ==
    IF IsEnvEffect(ev) THEN 1
    ELSE IF IsLockCall(ev) THEN 2
    ELSE IF IsInstallCall(ev) THEN 3
    ELSE IF ev = <<"eprintln", "Done!">> THEN 4
    ELSE 0

Count(p, ev) == Cardinality({i \in 1..Len(log[p]) : log[p][i] = ev})

\* C11: the entries of a sync's log are in phase order; an installation
\* comes after both lock calls; after a failed Environment Creator no
\* marker is written and nothing is locked or installed; after a failed
\* production lock call there is no dev lock call and no installation;
\* after a failed dev lock call there is no installation; each of these
\* failures is the error sync returns; and no tool is called twice.
C11_PhaseOrderAndAbort ==
    \A p \in Procs :
       /\ \A i, j \in 1..Len(log[p]) :
             (i < j /\ PhaseOf(log[p][i]) # 0 /\ PhaseOf(log[p][j]) # 0) =>
                PhaseOf(log[p][i]) <= PhaseOf(log[p][j])
       /\ Len(LockCalls(p)) <= 2 /\ Len(InstallCalls(p)) <= 1
       /\ Count(p, <<"create_virtualenv", "ok">>) + Count(p, <<"create_virtualenv", "failed">>) <= 1
       /\ InstallCalls(p) # <<>> => LockCalls(p) = BothLockCalls
       /\ Has(p, <<"eprintln", "Done!">>) => ReturnedOk(p)
       /\ Has(p, <<"create_virtualenv", "failed">>) =>
             /\ Returned(p) /\ result[p] = "failed creating virtualenv ahead of sync"
             /\ ~Has(p, <<"write_marker", "ok">>) /\ ~Has(p, <<"write_marker", "failed">>)
             /\ LockCalls(p) = <<>> /\ InstallCalls(p) = <<>>
       /\ (Returned(p) /\ result[p] = "could not write production lockfile") =>
             /\ LockCalls(p) = <<BothLockCalls[1]>>
             /\ InstallCalls(p) = <<>>
       /\ (Returned(p) /\ result[p] = "could not write dev lockfile") =>
             /\ LockCalls(p) = BothLockCalls
             /\ InstallCalls(p) = <<>>
       /\ (Len(LockCalls(p)) = 1 /\ pc[p] # "lock_dev") =>
             Returned(p) /\ result[p] = "could not write production lockfile"
       /\ (Len(LockCalls(p)) = 2 /\ InstallCalls(p) = <<>> /\ cmd[p].mode # "LockOnly"
             /\ pc[p] # "pip_sync") =>
             Returned(p) /\ result[p] = "could not write dev lockfile"

\* The production lock call of a Regular sync failed after a creation.
C11_Witness ==
    \E p \in Procs :
       /\ Returned(p) /\ result[p] = "could not write production lockfile"
       /\ cmd[p].mode = "Regular"
       /\ Has(p, <<"create_virtualenv", "ok">>)
       /\ Len(LockCalls(p)) = 1

(***************************************************************************)
(* C12. Whenever sync has returned, with Ok or with an error (of the link  *)
(* creation, of a lock call, of the installer), the TempDir it created and *)
(* the link in it no longer exist; and a link exists only inside an        *)
(* existing TempDir.                                                       *)
(***************************************************************************)
C12_TempDirReleased ==
    /\ links \subseteq tmpdirs
    /\ \A p \in Procs : pc[p] = "idle" => (p \notin tmpdirs /\ p \notin links)

\* A sync that had made its TempDir and link returned the installer's error.
C12_Witness ==
    \E p \in Procs :
       /\ Returned(p) /\ result[p] = "Installation of dependencies failed"
       /\ LockCalls(p) = BothLockCalls
       /\ p \notin tmpdirs

(***************************************************************************)
(* C13. Two syncs against the same directory are not mutually excluded,    *)
(* and the race is a reachable bad state: a sync is past environment       *)
(* resolution (locking, installing, or about to return Ok) while the       *)
(* directory is absent or has no marker, because the other sync removed    *)
(* it.                                                                     *)
(***************************************************************************)
\* Process p is past environment resolution and the directory it resolved
\* is not there, or has no marker file.
LostEnvironment(p) ==
    /\ pc[p] \in {"lock_production", "lock_dev", "pip_sync", "report"}
    /\ (~venv.is_dir \/ ~venv.marker_is_file)

\* C13: the bad state is the work of the race (or of a removal of its own
\* that failed): a sync loses its environment only when another process
\* has been running sync too. The witness C13_Witness is the race itself.
C13_LostOnlyByInterference ==
    \A p \in Procs :
       (LostEnvironment(p) /\ ~Has(p, <<"remove_dir_all", "failed">>)) =>
          \E q \in Procs \ {p} : result[q] # "none"

\* Process p created the directory and wrote its marker, and is between
\* its two lock calls; process q, still in its sync, has just removed the
\* directory; no removal failed.
C13_Witness ==
    \E p, q \in Procs :
       /\ p # q
       /\ pc[p] = "lock_dev"
       /\ Has(p, <<"create_virtualenv", "ok">>) /\ Has(p, <<"write_marker", "ok">>)
       /\ pc[q] = "check_venv"
       /\ EnvEffects(q) = <<<<"remove_dir_all", "removed">>>>
       /\ ~Has(p, <<"remove_dir_all", "failed">>)
       /\ ~venv.is_dir

(***************************************************************************)
(* C14. A sync that returns Ok has emitted the completion message (once)   *)
(* exactly when its verbosity is not Quiet and its mode is not PythonOnly; *)
(* a sync that returns an error, or has not returned, has not emitted it.  *)
(***************************************************************************)
C14_CompletionMessage ==
    \A p \in Procs :
       /\ Count(p, <<"eprintln", "Done!">>) <= 1
       /\ Has(p, <<"eprintln", "Done!">>) <=>
             /\ ReturnedOk(p)
             /\ cmd[p].output # "Quiet"
             /\ cmd[p].mode # "PythonOnly"

\* A verbose PythonOnly sync that recreated the directory returned Ok
\* without the message.
C14_Witness ==
    \E p \in Procs :
       /\ ReturnedOk(p) /\ cmd[p].mode = "PythonOnly" /\ cmd[p].output = "Verbose"
       /\ Has(p, <<"create_virtualenv", "ok">>)
       /\ ~Has(p, <<"eprintln", "Done!">>)

(***************************************************************************)
(* C15. After a sync that stopped (interrupted, or failing) once the       *)
(* Environment Creator had made the directory and before the marker file   *)
(* was written, the next sync finds the directory Unmanaged: with          *)
(* force=false it fails and leaves the directory as it is; with force=true *)
(* a sync that returns Ok has removed the directory, recreated it and      *)
(* written its marker.                                                     *)
(***************************************************************************)
C15_HalfBuiltIsUnmanaged ==
    \A p \in Procs :
       (Synced(p) /\ prev.half_built) =>
          /\ StartState(p) = "Unmanaged"
          /\ ~cmd[p].force =>
                /\ result[p] # "Ok"
                /\ venv = start[p].venv
                /\ EnvEffects(p) = <<>>
          /\ (cmd[p].force /\ ReturnedOk(p)) =>
                EnvEffects(p) = <<<<"remove_dir_all", "removed">>,
                                  <<"create_virtualenv", "ok">>, <<"write_marker", "ok">>>>

(***************************************************************************)
(* C16. Each call of the installer is handed exactly one lock artifact:    *)
(* requirements-dev.lock when dev=true and that file exists at the moment  *)
(* of the call, requirements.lock in every other case (dev=false, or       *)
(* dev=true with the dev file missing).                                    *)
(***************************************************************************)
C16_ExpectedSource(p) ==
    IF ~cmd[p].dev THEN "requirements.lock"
    ELSE IF ~dev_lockfile THEN "requirements.lock"
    ELSE "requirements-dev.lock"

C16_InstallSource ==
    [][\A p \in Procs :
         (pc[p] = "pip_sync" /\ pc'[p] # "pip_sync") =>
            /\ Len(log'[p]) = Len(log[p]) + 1
            /\ IsPrefix(log[p], log'[p])
            /\ log'[p][Len(log'[p])] = <<"pip-sync", C16_ExpectedSource(p)>>]_vars

C16_Witness ==
    \E p \in Procs :
       /\ cmd[p].dev
       /\ ~dev_lockfile
       /\ pc[p] = "report"
       /\ InstallCalls(p) = <<<<"pip-sync", "requirements.lock">>>>

(***************************************************************************)
(* C17. A failure of the removal of the environment directory aborts the   *)
(* sync: when the directory exists and remove_dir_all fails, sync returns  *)
(* an error and runs no creation, no lock call and no installation         *)
(* afterwards.                                                             *)
(***************************************************************************)
C17_RemovalFailureAborts ==
    \A p \in Procs :
       Has(p, <<"remove_dir_all", "failed">>) =>
          /\ pc[p] \in {"check_venv", "idle"}
          /\ pc[p] = "idle" => result[p] \notin {"none", "Ok", "interrupted"}
          /\ ~Has(p, <<"create_virtualenv", "ok">>)
          /\ ~Has(p, <<"create_virtualenv", "failed">>)
          /\ LockCalls(p) = <<>>
          /\ InstallCalls(p) = <<>>

(***************************************************************************)
(* C18. The isolation directory belongs to the installation phase only: a  *)
(* mode=LockOnly sync, which never installs, creates no isolation          *)
(* directory and no installer-module link (and so cannot fail on making    *)
(* them).  Stated of the syncs whose removal, if any, did not fail.        *)
(***************************************************************************)
C18_LockOnlyNoIsolationDir ==
    \A p \in Procs :
       (cmd[p].mode = "LockOnly" /\ ~Has(p, <<"remove_dir_all", "failed">>)) =>
          /\ p \notin tmpdirs
          /\ p \notin links
          /\ result[p] \notin {"TempDir::new failed",
                                "failed linking pip module into for pip-sync"}

(***************************************************************************)
(* C19. The environment directory is removed only after the bootstrap      *)
(* step and the toolchain fetch have both succeeded: up to the removal     *)
(* statement, and after a return with an error of any earlier statement    *)
(* (bootstrap and fetch among them), the directory and its marker are as   *)
(* the sync found them and nothing was done to the directory, also when    *)
(* recreation had already been decided.                                    *)
(***************************************************************************)
C19_EarlyErrors ==
    {"discover failed", "could not sync because bootstrap failed",
     "virtualenv is not managed by rye", "could not read venv marker file",
     "malformed venv marker file", "failed fetching toolchain ahead of sync"}

C19_RemovalAfterPrerequisites ==
    \A p \in Procs :
       (Synced(p) /\ \/ pc[p] \in BeforeResolution \cup {"fetch", "remove"}
                     \/ pc[p] = "idle" /\ result[p] \in C19_EarlyErrors) =>
          /\ venv = start[p].venv
          /\ EnvEffects(p) = <<>>

C19_Witness ==
    \E p \in Procs :
       /\ Returned(p)
       /\ result[p] = "failed fetching toolchain ahead of sync"
       /\ recreate[p]
       /\ StateOf(start[p].venv, start[p].requested) = "ManagedDrifted"
       /\ venv = start[p].venv

(***************************************************************************)
(* C20. The marker is written only as the last step of a successful        *)
(* creation: in every state reached by syncs run one after the other,      *)
(* fs::write on the marker is called only right after create_virtualenv    *)
(* returned success in the same sync; a marker file that this sync made or *)
(* changed lies in a directory this sync created; and the directory left   *)
(* by a failed creation has no marker file, so the next sync does not      *)
(* classify it as ManagedValid.                                            *)
(***************************************************************************)
C20_MarkerOnlyAfterCreation ==
    \A p \in Sequential :
       /\ \A i \in 1..Len(log[p]) :
             log[p][i][1] = "write_marker" =>
                i > 1 /\ log[p][i - 1] = <<"create_virtualenv", "ok">>
       /\ (Synced(p) /\ venv.marker_is_file
              /\ (~start[p].venv.marker_is_file \/ venv.marker # start[p].venv.marker)) =>
             Has(p, <<"create_virtualenv", "ok">>)
       /\ (Returned(p) /\ result[p] = "failed creating virtualenv ahead of sync") =>
             /\ ~venv.marker_is_file
             /\ \A v \in PythonVersion : StateOf(venv, v) # "ManagedValid"

C20_Witness ==
    \E p \in Sequential :
       /\ Returned(p)
       /\ result[p] = "failed creating virtualenv ahead of sync"
       /\ venv.is_dir
       /\ prev.regular_ok

=============================================================================
